---- MODULE Spec2Model ----
(***************************************************************************)
(* SwiftLogistics middleware: the order pipeline of main.py (process_order *)
(* and update_delivery_status), the three transport adapters and the       *)
(* message broker of services.py, and the WebSocket connection manager.    *)
(*                                                                         *)
(* Handlers are coroutines on one event loop: the code between two awaits  *)
(* that suspend runs without interleaving, so each action below is one     *)
(* such stretch.  Database calls are synchronous and do not suspend.       *)
(*                                                                         *)
(* Texts (references, error messages) are sequences of tokens, so that an  *)
(* f-string such as f"CMS_MOCK_{order_id}" is the sequence                 *)
(* <<"CMS_MOCK_", order_id>> and Python's None is the empty sequence.      *)
(***************************************************************************)
EXTENDS Integers, Sequences, FiniteSets, TLC

(* ------------------------------ bounds -------------------------------- *)

\* how many invocations of process_order one order id has, where the
\* specification has it called again at all
MaxSubmits == 2

\* how many update-status requests are made in one behaviour
MaxReports == 1

\* how many adapter calls the specification of the adapters alone makes
MaxCalls == 2

\* how many update-status requests are made where the specification is about
\* the log of DeliveryUpdates
MaxLog == 2

\* how many messages the broker hands to consumers
MaxDeliveries == 2

(* ------------------------------ domains ------------------------------- *)

None == <<>>

\* the order ids requests name
OrderIds == {"O1", "O2"}

\* the ids uuid.uuid4() yields in create_order: O2 is never created, so a
\* request naming it finds no order
NewOrderIds == {"O1"}

Clients == {"c1", "c2"}

Drivers == {"d1"}

Users == Clients \cup Drivers

\* User.user_type
user_type(u) == IF u \in Drivers THEN "driver" ELSE "client"

\* models.OrderStatus
OrderStatus == {"submitted", "processing", "in_warehouse", "out_for_delivery",
                "delivered", "failed"}

\* DeliveryUpdateCreate.status is a plain str: any text the driver sends
ReportedStatuses == {"out_for_delivery", "delivered", "returned_to_sender"}

\* the texts of the exceptions an adapter replaced by a hard-failing one raises
HardErrors == {<<"ConnectionRefused">>, <<"Unavailable">>}

(* --------------------------- Python results --------------------------- *)

Ret(v) == [raised |-> FALSE, value |-> v, error |-> None]

Raise(e) == [raised |-> TRUE, value |-> None, error |-> e]

(* ------------------------- CMSService (SOAP) -------------------------- *)

\* what the HTTP exchange with the CMS can end in
CmsReplyKinds == {"transport_error", "timeout", "http_error", "xml_unparseable",
                  "xml_no_reference", "xml_empty_reference", "xml_reference"}

\* the text of a <ReferenceId> element: the CMS chooses it freely
CmsReferenceTexts(order_id) == {<<"CMS-7001">>}

CmsReplies(order_id) ==
    [kind : CmsReplyKinds \ {"xml_reference"}, text : {None}]
    \cup [kind : {"xml_reference"}, text : CmsReferenceTexts(order_id)]

CmsMock(order_data) ==
    [reference_id |-> <<"CMS_MOCK_", order_data.order_id>>, status |-> <<"submitted">>]

\* the body of the try block: session.post, the status test, the XML parse
CmsTry(order_data, reply) ==
    CASE reply.kind = "transport_error" -> Raise(<<"ClientConnectorError">>)
      [] reply.kind = "timeout" -> Raise(<<"TimeoutError">>)
      [] reply.kind = "http_error" -> Raise(<<"CMS error: ", "500">>)
      [] reply.kind = "xml_unparseable" -> Raise(<<"ParseError">>)
      [] reply.kind = "xml_no_reference" ->
            Ret([reference_id |-> <<"CMS_", order_data.order_id>>,
                 status |-> <<"submitted">>])
      [] reply.kind = "xml_empty_reference" ->
            Ret([reference_id |-> None, status |-> <<"submitted">>])
      [] OTHER ->
            Ret([reference_id |-> reply.text, status |-> <<"submitted">>])

\* CMSService.submit_order: except Exception -> the mock response
CMSService_submit_order(order_data, reply) ==
    LET r == CmsTry(order_data, reply)
    IN  IF r.raised THEN Ret(CmsMock(order_data)) ELSE r

(* ------------------------- WMSService (TCP) --------------------------- *)

\* what the TCP exchange with the WMS can end in
WmsReplyKinds == {"transport_error", "timeout", "not_json", "json_non_object",
                  "json_error_object", "json_object"}

WmsPackageTexts(order_id) == {<<"PKG-42">>}

WmsReplies(order_id) ==
    [kind : WmsReplyKinds \ {"json_object"}, text : {None}]
    \cup [kind : {"json_object"}, text : WmsPackageTexts(order_id)]

\* WMSService._send_tcp_message: the bytes read, or the failure re-raised
WMSService_send_tcp_message(reply) ==
    CASE reply.kind = "transport_error" ->
            Raise(<<"TCP communication failed: ", "ConnectionRefusedError">>)
      [] reply.kind = "timeout" ->
            Raise(<<"TCP communication failed: ", "TimeoutError">>)
      [] OTHER -> Ret(reply)

\* json.loads of the reply: a decoded value, is_dict telling a JSON object from
\* any other JSON value (a list, a string, a number)
JsonLoads(reply) ==
    CASE reply.kind = "not_json" -> Raise(<<"JSONDecodeError">>)
      [] reply.kind = "json_non_object" ->
            Ret([is_dict |-> FALSE, package_id |-> None,
                 warehouse_location |-> None, status |-> None])
      [] reply.kind = "json_error_object" ->
            Ret([is_dict |-> TRUE, package_id |-> None,
                 warehouse_location |-> None, status |-> <<"error">>])
      [] OTHER ->
            Ret([is_dict |-> TRUE, package_id |-> reply.text,
                 warehouse_location |-> <<"A-01-15">>, status |-> <<"received">>])

\* a mock response whose package_id does not come from the order id: what C7
\* excludes
WmsMockUnderived(package_data) ==
    [is_dict |-> TRUE, package_id |-> <<"WMS_MOCK_", "0">>,
     warehouse_location |-> <<"A-01-15">>, status |-> <<"received">>]

WmsMock(package_data) ==
    [is_dict |-> TRUE, package_id |-> <<"WMS_MOCK_", package_data.order_id>>,
     warehouse_location |-> <<"A-01-15">>, status |-> <<"received">>]

\* WMSService.add_package: the decoded reply as it is, or the mock response
WMSService_add_package(package_data, reply) ==
    LET sent == WMSService_send_tcp_message(reply)
        r == IF sent.raised THEN sent ELSE JsonLoads(sent.value)
    IN  IF r.raised THEN Ret(WmsMock(package_data)) ELSE r

(* ------------------------- ROSService (REST) -------------------------- *)

RosReplyKinds == {"transport_error", "timeout", "http_error", "json_unparseable",
                  "json_non_object", "json_no_id", "json_null_id", "json_id"}

RosPointTexts(order_id) == {<<"RP-9">>}

RosReplies(order_id) ==
    [kind : RosReplyKinds \ {"json_id"}, text : {None}]
    \cup [kind : {"json_id"}, text : RosPointTexts(order_id)]

RosMock(delivery_data) ==
    [route_point_id |-> <<"ROS_MOCK_", delivery_data.order_id>>,
     estimated_delivery_time |-> <<"14:00">>, route_sequence |-> <<"1">>]

\* the body of the try block: session.post, the status test, response.json(),
\* result.get
RosTry(delivery_data, reply) ==
    CASE reply.kind = "transport_error" -> Raise(<<"ClientConnectorError">>)
      [] reply.kind = "timeout" -> Raise(<<"TimeoutError">>)
      [] reply.kind = "http_error" -> Raise(<<"ROS error: ", "500">>)
      [] reply.kind = "json_unparseable" -> Raise(<<"ContentTypeError">>)
      [] reply.kind = "json_non_object" -> Raise(<<"AttributeError">>)
      [] reply.kind = "json_no_id" ->
            Ret([route_point_id |-> <<"ROS_", delivery_data.order_id>>,
                 estimated_delivery_time |-> None, route_sequence |-> None])
      [] reply.kind = "json_null_id" ->
            Ret([route_point_id |-> None,
                 estimated_delivery_time |-> None, route_sequence |-> None])
      [] OTHER ->
            Ret([route_point_id |-> reply.text,
                 estimated_delivery_time |-> <<"14:00">>, route_sequence |-> <<"1">>])

\* ROSService.add_delivery_point: except Exception -> the mock response
ROSService_add_delivery_point(delivery_data, reply) ==
    LET r == RosTry(delivery_data, reply)
    IN  IF r.raised THEN Ret(RosMock(delivery_data)) ELSE r

(* ------------------------ the adapters as called ----------------------- *)

\* process_order awaits the three module-level service objects inside one try
\* block.  A call either runs the service's own code on what the external
\* system answers, or (kind "hard_error") the service object is one that raises
\* to its caller, which is what the except clause of process_order is for.
HardReplies == [kind : {"hard_error"}, text : HardErrors]

cms_service_submit_order(order_data, reply) ==
    IF reply.kind = "hard_error" THEN Raise(reply.text)
    ELSE CMSService_submit_order(order_data, reply)

wms_service_add_package(package_data, reply) ==
    IF reply.kind = "hard_error" THEN Raise(reply.text)
    ELSE WMSService_add_package(package_data, reply)

ros_service_add_delivery_point(delivery_data, reply) ==
    IF reply.kind = "hard_error" THEN Raise(reply.text)
    ELSE ROSService_add_delivery_point(delivery_data, reply)

\* how a register call ended, as seen from outside the adapter: "hard" (it
\* raised), "degraded" (the external exchange failed inside the adapter and the
\* mock response was returned) or "genuine" (what the external system answered
\* was returned)
LegClass(reply, tried) ==
    IF reply.kind = "hard_error" THEN "hard"
    ELSE IF tried.raised THEN "degraded" ELSE "genuine"

CmsLeg(order_data, reply) == LegClass(reply, CmsTry(order_data, reply))

WmsLeg(package_data, reply) ==
    LegClass(reply, IF WMSService_send_tcp_message(reply).raised
                    THEN WMSService_send_tcp_message(reply) ELSE JsonLoads(reply))

RosLeg(delivery_data, reply) == LegClass(reply, RosTry(delivery_data, reply))

(* ------------------------------- state -------------------------------- *)

VARIABLES
    orders,              \* the orders table: order id -> row
    delivery_updates,    \* the delivery_updates table, in insertion order
    task,                \* process_order per order id: where it is, what it holds
    broker_channel,      \* MessageBroker.channel is not None
    bus,                 \* the messages basic_publish accepted, per routing key
    ws,                  \* the WebSocket connections: state and client_id
    active_connections,  \* ConnectionManager.active_connections
    ws_sent,             \* the messages sent on the WebSocket connections
    wms_updates,         \* the UPDATE_STATUS calls made on the WMS adapter
    response,            \* the answer to the last update-status request
    reports,             \* the update-status requests made so far
    calls,               \* the register calls made on the adapters alone
    on_message_callback, \* basic_consume: the callback consuming each queue
    deliveries           \* the messages handed to a consumer, and their settling

vars == <<orders, delivery_updates, task, broker_channel, bus, ws,
          active_connections, ws_sent, wms_updates, response, reports, calls,
          on_message_callback, deliveries>>

\* the consumers of the broker and what was delivered to them
amqp == <<on_message_callback, deliveries>>

\* the state of the application, without the record of the adapters' own calls
app == <<orders, delivery_updates, task, broker_channel, bus, ws,
         active_connections, ws_sent, wms_updates, response, reports, amqp>>

\* the queues _setup_connection declares and binds by routing key
Queues == {"order.submitted", "order.processed", "order.failed", "delivery.updated"}

WsIds == {"w1", "w2"}

\* the connections opened under Spec
SpecSockets == {"w1"}

NoRow == [client_id |-> "-", assigned_driver_id |-> "-", status |-> "-",
          cms_reference |-> None,
          wms_reference |-> None, ros_reference |-> None, error_message |-> None]

NoCmsResponse == [reference_id |-> None, status |-> None]

NoWmsResponse == [is_dict |-> TRUE, package_id |-> None,
                  warehouse_location |-> None, status |-> None]

NoRosResponse == [route_point_id |-> None, estimated_delivery_time |-> None,
                  route_sequence |-> None]

NoLegs == [cms |-> "-", wms |-> "-", ros |-> "-"]

\* an invocation of process_order that has not begun: pc is where it stands
\* ("idle": not called; "scheduled": added by create_order; "cms", "wms",
\* "ros": awaiting that adapter; "wms_blocked": awaiting a WMS exchange that
\* never ends; "done": returned).  loaded is the order as
\* the query of line 271 found it; legs, raised, effects and outcome record
\* how each register call ended, the text of the exception a call raised,
\* what the invocation did in order, what became of its basic_publish, and
\* the row as it stood when the invocation's commit returned.
IdleTask == [pc |-> "idle", cms_response |-> NoCmsResponse,
             wms_response |-> NoWmsResponse, ros_response |-> NoRosResponse,
             legs |-> NoLegs, raised |-> None, effects |-> <<>>,
             published |-> "-", loaded |-> NoRow, outcome |-> NoRow]

\* the answer to an update-status request: who asked, about which order, and
\* the HTTP status
Response(order_id, user, code) == [order_id |-> order_id, user |-> user, code |-> code]

\* the invocations of process_order on one order id
Invocations == 1..MaxSubmits

\* a connection not yet made.  superseded records that a later connection was
\* made under the same client_id
NewSocket == [state |-> "new", client_id |-> "-", superseded |-> FALSE]

Effect(op, what) == [op |-> op, what |-> what]

Init ==
    /\ orders = <<>>
    /\ delivery_updates = <<>>
    /\ task = [o \in OrderIds |-> [k \in Invocations |-> IdleTask]]
    /\ broker_channel \in BOOLEAN
    /\ bus = [q \in Queues |-> <<>>]
    /\ ws = [w \in WsIds |-> NewSocket]
    /\ active_connections = <<>>
    /\ ws_sent = <<>>
    /\ wms_updates = <<>>
    /\ response = Response("-", "-", 0)
    /\ reports = 0
    /\ calls = <<>>
    /\ on_message_callback =
           [q \in Queues |->
               IF broker_channel /\ q = "order.processed"
               THEN "handle_order_processed" ELSE "-"]
    /\ deliveries = <<>>

(* ----------------------------- create_order --------------------------- *)

\* POST /orders: the row is inserted with status submitted, assigned_driver_id
\* left NULL ("-"), and process_order is added as a background task
create_order(o, u) ==
    /\ o \notin DOMAIN orders
    /\ orders' = (o :> [NoRow EXCEPT !.client_id = u, !.status = "submitted"]) @@ orders
    /\ task' = [task EXCEPT ![o][1].pc = "scheduled"]
    /\ UNCHANGED <<delivery_updates, broker_channel, bus, ws, active_connections,
                   ws_sent, wms_updates, response, reports, calls, amqp>>

(* ---------------------------- MessageBroker --------------------------- *)

\* json.dumps of the message: which keys it has and their texts (None: no such key)
Message(order_id, status, error) ==
    [order_id |-> order_id, status |-> status, error |-> error]

\* MessageBroker.publish_message: nothing without a channel; a basic_publish
\* that raises is printed and swallowed.  The value is the new bus.
MessageBroker_publish_message(routing_key, message, publish) ==
    IF ~broker_channel THEN bus
    ELSE IF publish = "raises" THEN bus
    ELSE [bus EXCEPT ![routing_key] = Append(@, message)]

PublishOutcomes == {"ok", "raises"}

\* what became of a call of publish_message
Published(publish) == IF ~broker_channel THEN "no_channel" ELSE publish

(* ----------------------------- process_order -------------------------- *)

order_data(o) == [order_id |-> o]

\* db.commit() of a session holding one loaded order: the UPDATE sets the
\* attributes whose value on the object differs from the value loaded, and
\* leaves the other columns of the row as they are now
Flush(current, loaded, obj) ==
    [client_id |-> current.client_id,
     assigned_driver_id |-> current.assigned_driver_id,
     status |-> IF obj.status # loaded.status THEN obj.status ELSE current.status,
     cms_reference |-> IF obj.cms_reference # loaded.cms_reference
                       THEN obj.cms_reference ELSE current.cms_reference,
     wms_reference |-> IF obj.wms_reference # loaded.wms_reference
                       THEN obj.wms_reference ELSE current.wms_reference,
     ros_reference |-> IF obj.ros_reference # loaded.ros_reference
                       THEN obj.ros_reference ELSE current.ros_reference,
     error_message |-> IF obj.error_message # loaded.error_message
                       THEN obj.error_message ELSE current.error_message]

\* lines 271-282: the order is loaded; a missing order ends the task, else the
\* CMS call is started.  Invocation 1 of an order is the background task
\* create_order adds; direct: process_order is called on the order id again.
\* the three register calls started together, as asyncio.gather would: what
\* C22 excludes
process_order_start_gather(o, k, direct) ==
    /\ \/ task[o][k].pc = "scheduled"
       \/ direct /\ k > 1 /\ task[o][k].pc = "idle"
    /\ task' = [task EXCEPT ![o][k] =
                  IF o \notin DOMAIN orders
                  THEN [IdleTask EXCEPT !.pc = "done"]
                  ELSE [IdleTask EXCEPT !.pc = "cms", !.loaded = orders[o],
                                        !.effects = <<Effect("call", <<"cms">>),
                                                     Effect("call", <<"wms">>),
                                                     Effect("call", <<"ros">>)>>]]
    /\ UNCHANGED <<orders, delivery_updates, broker_channel, bus, ws,
                   active_connections, ws_sent, wms_updates, response, reports,
                   calls, amqp>>

process_order_start(o, k, direct) ==
    /\ \/ task[o][k].pc = "scheduled"
       \/ direct /\ k > 1 /\ task[o][k].pc = "idle"
    /\ task' = [task EXCEPT ![o][k] =
                  IF o \notin DOMAIN orders
                  THEN [IdleTask EXCEPT !.pc = "done"]
                  ELSE [IdleTask EXCEPT !.pc = "cms", !.loaded = orders[o],
                                        !.effects = <<Effect("call", <<"cms">>)>>]]
    /\ UNCHANGED <<orders, delivery_updates, broker_channel, bus, ws,
                   active_connections, ws_sent, wms_updates, response, reports,
                   calls, amqp>>

\* the except clause without order.error_message = str(e): what C8 excludes
process_order_except_no_message(o, k, t, obj, e, publish) ==
    LET failed == [obj EXCEPT !.status = "failed"]
        row == Flush(orders[o], t.loaded, failed)
        msg == Message(o, None, e)
    IN  /\ orders' = [orders EXCEPT ![o] = row]
        /\ bus' = MessageBroker_publish_message("order.failed", msg, publish)
        /\ task' = [task EXCEPT ![o][k] =
                      [t EXCEPT !.pc = "done", !.outcome = row,
                                !.published = Published(publish),
                                !.effects = t.effects \o
                                    <<Effect("except", e),
                                      Effect("commit", <<"failed">>),
                                      Effect("publish", <<"order.failed", o>> \o e)>>]]

\* lines 311-321, the except clause: status failed and the error text are set
\* on the order object (obj: the loaded order with what the try block had set
\* on it), the session is committed, then order.failed is published
process_order_except(o, k, t, obj, e, publish) ==
    LET failed == [obj EXCEPT !.status = "failed", !.error_message = e]
        row == Flush(orders[o], t.loaded, failed)
        msg == Message(o, None, e)
    IN  /\ orders' = [orders EXCEPT ![o] = row]
        /\ bus' = MessageBroker_publish_message("order.failed", msg, publish)
        /\ task' = [task EXCEPT ![o][k] =
                      [t EXCEPT !.pc = "done", !.outcome = row,
                                !.published = Published(publish),
                                !.effects = t.effects \o
                                    <<Effect("except", e),
                                      Effect("commit", <<"failed">>),
                                      Effect("publish", <<"order.failed", o>> \o e)>>]]

\* process_order going on to the WMS call after the CMS call raised: what C4's
\* amended statement excludes
process_order_cms_continue(o, k, reply, publish) ==
    /\ task[o][k].pc = "cms"
    /\ LET r == cms_service_submit_order(order_data(o), reply)
           t == [task[o][k] EXCEPT !.legs.cms = CmsLeg(order_data(o), reply),
                                   !.raised = r.error]
       IN  /\ task' = [task EXCEPT ![o][k] =
                         [t EXCEPT !.pc = "wms",
                                   !.cms_response = IF r.raised THEN NoCmsResponse
                                                    ELSE r.value,
                                   !.effects = Append(t.effects,
                                                      Effect("call", <<"wms">>))]]
           /\ UNCHANGED <<orders, bus>>
    /\ UNCHANGED <<delivery_updates, broker_channel, ws, active_connections,
                   ws_sent, wms_updates, response, reports, calls, amqp>>

\* process_order committing the CMS reference as soon as the CMS call has
\* returned: what C17 excludes
process_order_cms_early_commit(o, k, reply, publish) ==
    /\ task[o][k].pc = "cms"
    /\ LET r == cms_service_submit_order(order_data(o), reply)
           t == [task[o][k] EXCEPT !.legs.cms = CmsLeg(order_data(o), reply),
                                   !.raised = r.error]
       IN  IF r.raised
           THEN process_order_except(o, k, t, t.loaded, r.error, publish)
           ELSE /\ task' = [task EXCEPT ![o][k] =
                              [t EXCEPT !.pc = "wms", !.cms_response = r.value,
                                        !.effects = Append(t.effects,
                                                           Effect("call", <<"wms">>))]]
                /\ orders' = [orders EXCEPT ![o].cms_reference = r.value.reference_id]
                /\ UNCHANGED bus
    /\ UNCHANGED <<delivery_updates, broker_channel, ws, active_connections,
                   ws_sent, wms_updates, response, reports, calls, amqp>>

\* lines 277-288: the CMS call returns (or raises) and the WMS call is started
process_order_cms(o, k, reply, publish) ==
    /\ task[o][k].pc = "cms"
    /\ LET r == cms_service_submit_order(order_data(o), reply)
           t == [task[o][k] EXCEPT !.legs.cms = CmsLeg(order_data(o), reply),
                                   !.raised = r.error]
       IN  IF r.raised
           THEN process_order_except(o, k, t, t.loaded, r.error, publish)
           ELSE /\ task' = [task EXCEPT ![o][k] =
                              [t EXCEPT !.pc = "wms", !.cms_response = r.value,
                                        !.effects = Append(t.effects,
                                                           Effect("call", <<"wms">>))]]
                /\ UNCHANGED <<orders, bus>>
    /\ UNCHANGED <<delivery_updates, broker_channel, ws, active_connections,
                   ws_sent, wms_updates, response, reports, calls, amqp>>

\* lines 285-295: the WMS call returns (or raises) and the ROS call is started
process_order_wms(o, k, reply, publish) ==
    /\ task[o][k].pc = "wms"
    /\ LET r == wms_service_add_package(order_data(o), reply)
           t == [task[o][k] EXCEPT !.legs.wms = WmsLeg(order_data(o), reply),
                                   !.raised = r.error]
       IN  IF r.raised
           THEN process_order_except(o, k, t, t.loaded, r.error, publish)
           ELSE /\ task' = [task EXCEPT ![o][k] =
                              [t EXCEPT !.pc = "ros", !.wms_response = r.value,
                                        !.effects = Append(t.effects,
                                                           Effect("call", <<"ros">>))]]
                /\ UNCHANGED <<orders, bus>>
    /\ UNCHANGED <<delivery_updates, broker_channel, ws, active_connections,
                   ws_sent, wms_updates, response, reports, calls, amqp>>

\* the status text of the CMS response stored as the reference: what C3's
\* amended statement excludes
set_status_and_cms_status(order, cms_response) ==
    [order EXCEPT !.status = "processing", !.cms_reference = cms_response.status]

\* lines 209-219 of services.py seen from process_order: _send_tcp_message
\* awaits open_connection, drain and read with no timeout, so against a WMS
\* that accepts the connection and never answers the await of line 285 never
\* returns
process_order_wms_blocked(o, k) ==
    /\ task[o][k].pc = "wms"
    /\ task' = [task EXCEPT ![o][k].pc = "wms_blocked"]
    /\ UNCHANGED <<orders, delivery_updates, broker_channel, bus, ws,
                   active_connections, ws_sent, wms_updates, response, reports,
                   calls, amqp>>

\* lines 298-299: order.status = "processing"; order.cms_reference =
\* cms_response.get("reference_id")
set_status_and_cms_reference(order, cms_response) ==
    [order EXCEPT !.status = "processing",
                  !.cms_reference = cms_response.reference_id]

\* lines 300-301: order.wms_reference = wms_response.get("package_id");
\* order.ros_reference = ros_response.get("route_point_id")
set_wms_and_ros_reference(order, wms_response, ros_response) ==
    [order EXCEPT !.wms_reference = wms_response.package_id,
                  !.ros_reference = ros_response.route_point_id]

\* process_order with a publish_message that lets the failure of basic_publish
\* out: the except clause runs after the commit of processing.  What C14
\* excludes
process_order_update_publish_raises(o, k, t, ros_response, publish) ==
    LET set_cms == set_status_and_cms_reference(t.loaded, t.cms_response)
        obj == set_wms_and_ros_reference(set_cms, t.wms_response, ros_response)
        row == Flush(orders[o], t.loaded, obj)
        msg == Message(o, <<"processing">>, None)
        committed == [t EXCEPT !.ros_response = ros_response,
                               !.effects = Append(t.effects,
                                                  Effect("commit", <<"processing">>))]
    IN  IF ~t.wms_response.is_dict
        THEN process_order_except(o, k, t, set_cms,
                 <<"'list' object has no attribute 'get'">>, publish)
        ELSE IF Published(publish) # "ok"
        THEN process_order_except(o, k, committed, obj,
                 <<"AMQPConnectionError">>, publish)
        ELSE /\ orders' = [orders EXCEPT ![o] = row]
             /\ bus' = MessageBroker_publish_message("order.processed", msg, publish)
             /\ task' = [task EXCEPT ![o][k] =
                           [t EXCEPT !.pc = "done", !.outcome = row,
                                     !.published = Published(publish),
                                     !.ros_response = ros_response,
                                     !.effects = t.effects \o
                                         <<Effect("commit", <<"processing">>),
                                           Effect("publish",
                                                  <<"order.processed", o, "processing">>)>>]]

\* lines 297-309: status and references are set on the loaded order, committed,
\* and order.processed is published.  wms_response.get on a decoded reply that
\* is no dict raises AttributeError after status and cms_reference were set.
process_order_update(o, k, t, ros_response, publish) ==
    LET set_cms == set_status_and_cms_reference(t.loaded, t.cms_response)
        obj == set_wms_and_ros_reference(set_cms, t.wms_response, ros_response)
        row == Flush(orders[o], t.loaded, obj)
        msg == Message(o, <<"processing">>, None)
    IN  IF ~t.wms_response.is_dict
        THEN process_order_except(o, k, t, set_cms,
                 <<"'list' object has no attribute 'get'">>, publish)
        ELSE /\ orders' = [orders EXCEPT ![o] = row]
             /\ bus' = MessageBroker_publish_message("order.processed", msg, publish)
             /\ task' = [task EXCEPT ![o][k] =
                           [t EXCEPT !.pc = "done", !.outcome = row,
                                     !.published = Published(publish),
                                     !.ros_response = ros_response,
                                     !.effects = t.effects \o
                                         <<Effect("commit", <<"processing">>),
                                           Effect("publish",
                                                  <<"order.processed", o, "processing">>)>>]]

\* lines 291-309: the ROS call returns (or raises) and the run ends
process_order_ros(o, k, reply, publish) ==
    /\ task[o][k].pc = "ros"
    /\ LET r == ros_service_add_delivery_point(order_data(o), reply)
           t == [task[o][k] EXCEPT !.legs.ros = RosLeg(order_data(o), reply),
                                   !.raised = r.error]
       IN  IF r.raised
           THEN process_order_except(o, k, t, t.loaded, r.error, publish)
           ELSE process_order_update(o, k, t, r.value, publish)
    /\ UNCHANGED <<delivery_updates, broker_channel, ws, active_connections,
                   ws_sent, wms_updates, response, reports, calls, amqp>>

(* -------------------------- ConnectionManager -------------------------- *)

\* websocket_endpoint, line 259: manager.connect accepts the socket and stores
\* it under the client_id of the path, replacing an entry of the same key
websocket_connect(w, c) ==
    /\ ws[w].state = "new"
    /\ ws' = [v \in WsIds |->
                IF v = w
                THEN [state |-> "open", client_id |-> c, superseded |-> FALSE]
                ELSE IF ws[v].client_id = c THEN [ws[v] EXCEPT !.superseded = TRUE]
                ELSE ws[v]]
    /\ active_connections' = (c :> w) @@ active_connections
    /\ UNCHANGED <<orders, delivery_updates, task, broker_channel, bus, ws_sent,
                   wms_updates, response, reports, calls, amqp>>

\* the peer goes away: the next receive_text of the endpoint will raise
\* WebSocketDisconnect, and a send_text on the socket raises
websocket_peer_close(w) ==
    /\ ws[w].state = "open"
    /\ ws' = [ws EXCEPT ![w].state = "closed"]
    /\ UNCHANGED <<orders, delivery_updates, task, broker_channel, bus,
                   active_connections, ws_sent, wms_updates, response, reports,
                   calls, amqp>>

\* ConnectionManager.disconnect
ConnectionManager_disconnect(client_id) ==
    IF client_id \in DOMAIN active_connections
    THEN [c \in DOMAIN active_connections \ {client_id} |-> active_connections[c]]
    ELSE active_connections

\* websocket_endpoint, lines 265-266: except WebSocketDisconnect
websocket_disconnect(w) ==
    /\ ws[w].state = "closed"
    /\ ws' = [ws EXCEPT ![w] = NewSocket]
    /\ active_connections' = ConnectionManager_disconnect(ws[w].client_id)
    /\ UNCHANGED <<orders, delivery_updates, task, broker_channel, bus, ws_sent,
                   wms_updates, response, reports, calls, amqp>>

\* send_message without the membership test of line 64: the lookup raises
\* KeyError for a client_id that has no entry.  What C20 excludes
ConnectionManager_send_message_unchecked(client_id) ==
    IF client_id \notin DOMAIN active_connections THEN "raised"
    ELSE IF ws[active_connections[client_id]].state = "open" THEN "sent"
    ELSE "raised"

\* ConnectionManager.send_message: "none" (no entry for client_id: nothing is
\* done), "sent" (send_text on the stored socket) or "raised" (send_text on a
\* socket whose peer is gone)
ConnectionManager_send_message(client_id) ==
    IF client_id \notin DOMAIN active_connections THEN "none"
    ELSE IF ws[active_connections[client_id]].state = "open" THEN "sent"
    ELSE "raised"

(* ------------------------ update_delivery_status ----------------------- *)

\* db.commit() of a status the enum does not have: refused by a database that
\* enforces the column type, stored as it is by one that does not
CommitRaises(status, enforced) == status \notin OrderStatus /\ enforced

\* a DeliveryUpdate committed before the exception is raised: what C10 excludes
raise_HTTPException_after_insert(o, u, status_code) ==
    /\ response' = Response(o, u, status_code)
    /\ delivery_updates' =
           Append(delivery_updates,
                  [id |-> Len(delivery_updates) + 1, order_id |-> o,
                   driver_id |-> u, status |-> "-"])
    /\ UNCHANGED <<orders, ws_sent, wms_updates>>

\* lines 197-198 and 201-202: raise HTTPException(status_code) before anything
\* is set on the session
raise_HTTPException(o, u, status_code) ==
    /\ response' = Response(o, u, status_code)
    /\ UNCHANGED <<orders, delivery_updates, ws_sent, wms_updates>>

\* the push of a report goes to the caller: what C12 excludes
recipient_is_caller(o, u) == u

\* line 223: the client_id the message is sent to, str(order.client_id)
recipient(o, u) == orders[o].client_id

\* the order's error message cleared along with the status: what C26 excludes
set_status_and_clear_error(order, s) ==
    [order EXCEPT !.status = s, !.error_message = None]

\* line 205: order.status = update_data.status, and nothing else of the order
\* that the model holds
set_status(order, s) == [order EXCEPT !.status = s]

\* the record written over the order's earlier DeliveryUpdate, as a merge
\* keyed by order_id would: what C24 excludes
db_merge(o, u, s) ==
    LET d == [id |-> Len(delivery_updates) + 1, order_id |-> o,
              driver_id |-> u, status |-> s]
    IN  IF \E i \in 1..Len(delivery_updates) : delivery_updates[i].order_id = o
        THEN [i \in 1..Len(delivery_updates) |->
                 IF delivery_updates[i].order_id = o
                 THEN d ELSE delivery_updates[i]]
        ELSE Append(delivery_updates, d)

\* lines 209-218: a new DeliveryUpdate, with a fresh id, added to the session
db_add(o, u, s) ==
    Append(delivery_updates,
           [id |-> Len(delivery_updates) + 1, order_id |-> o,
            driver_id |-> u, status |-> s])

\* the DeliveryUpdate inserted by a commit that fails on the order's status,
\* as two transactions would: what C25 excludes
db_commit_raises_after_insert(o, u, s) ==
    /\ response' = Response(o, u, 500)
    /\ delivery_updates' = db_add(o, u, s)
    /\ UNCHANGED <<orders, ws_sent, wms_updates>>

\* line 219 raising: the one transaction of the request is rolled back, with
\* the order's status and the DeliveryUpdate in it
db_commit_raises(o, u, s) ==
    /\ response' = Response(o, u, 500)
    /\ UNCHANGED <<orders, delivery_updates, ws_sent, wms_updates>>

\* POST /orders/{order_id}/update-status, lines 197-235
update_delivery_status(o, u, s, enforced) ==
    /\ reports' = reports + 1
    /\ IF user_type(u) # "driver"
       THEN raise_HTTPException(o, u, 403)
       ELSE IF o \notin DOMAIN orders
       THEN raise_HTTPException(o, u, 404)
       ELSE IF CommitRaises(s, enforced)
       THEN db_commit_raises(o, u, s)
       ELSE LET client_id == recipient(o, u)
                sent == ConnectionManager_send_message(client_id)
            IN  /\ orders' = [orders EXCEPT ![o] = set_status(@, s)]
                /\ delivery_updates' = db_add(o, u, s)
                /\ ws_sent' = IF sent = "sent"
                              THEN Append(ws_sent,
                                          [ws |-> active_connections[client_id],
                                           client_id |-> client_id,
                                           type |-> "delivery_update",
                                           order_id |-> o, status |-> s])
                              ELSE ws_sent
                /\ wms_updates' = IF sent = "raised" THEN wms_updates
                                  ELSE Append(wms_updates,
                                              [order_id |-> o, status |-> s])
                /\ response' = Response(o, u, IF sent = "raised" THEN 500 ELSE 200)
    /\ UNCHANGED <<task, broker_channel, bus, ws, active_connections, calls, amqp>>

(* ------------------------------- the system ---------------------------- *)

\* clients are interchangeable: the order is placed by c1, and c2 is the other
\* identity
HttpCreateOrder == \E o \in NewOrderIds, u \in {"c1"} : create_order(o, u)

TaskStart == \E o \in OrderIds : process_order_start(o, 1, FALSE)

TaskCms ==
    \E o \in OrderIds : \E reply \in CmsReplies(o) \cup HardReplies,
       publish \in PublishOutcomes : process_order_cms(o, 1, reply, publish)

TaskWms ==
    \E o \in OrderIds : \E reply \in WmsReplies(o) \cup HardReplies,
       publish \in PublishOutcomes : process_order_wms(o, 1, reply, publish)

TaskWmsBlocked == \E o \in OrderIds : process_order_wms_blocked(o, 1)

TaskRos ==
    \E o \in OrderIds : \E reply \in RosReplies(o) \cup HardReplies,
       publish \in PublishOutcomes : process_order_ros(o, 1, reply, publish)

\* the request is made by the driver or by a client; which client makes no
\* difference to update_delivery_status
HttpUpdateStatus ==
    \E o \in OrderIds, u \in Drivers \cup {"c1"}, s \in ReportedStatuses,
       enforced \in BOOLEAN :
        /\ reports < MaxReports
        /\ update_delivery_status(o, u, s, enforced)

\* the client that connects is the one who places the order: a connection
\* stored under another client id is looked up by no request made here
WsConnect == \E w \in SpecSockets, c \in {"c1"} : websocket_connect(w, c)

WsPeerClose == \E w \in SpecSockets : websocket_peer_close(w)

WsDisconnect == \E w \in SpecSockets : websocket_disconnect(w)

\* process_order is called once per order, by create_order
Next ==
    \/ HttpCreateOrder
    \/ TaskStart
    \/ TaskCms
    \/ TaskWms
    \/ TaskWmsBlocked
    \/ TaskRos
    \/ HttpUpdateStatus
    \/ WsConnect
    \/ WsPeerClose
    \/ WsDisconnect

Spec == Init /\ [][Next]_vars

(* --------------------------- the adapters alone ------------------------ *)

\* the external systems choose their texts freely: a reference text may be
\* the very text the adapter synthesizes
AdapterReplies(system, order_id) ==
    CASE system = "cms" ->
            CmsReplies(order_id)
            \cup [kind : {"xml_reference"}, text : {<<"CMS_MOCK_", order_id>>}]
      [] system = "wms" ->
            WmsReplies(order_id)
            \cup [kind : {"json_object"}, text : {<<"WMS_MOCK_", order_id>>}]
      [] OTHER ->
            RosReplies(order_id)
            \cup [kind : {"json_id"}, text : {<<"ROS_MOCK_", order_id>>}]

\* the register operation of each service class
Register(system, order_id, reply) ==
    CASE system = "cms" -> CMSService_submit_order(order_data(order_id), reply)
      [] system = "wms" -> WMSService_add_package(order_data(order_id), reply)
      [] OTHER -> ROSService_add_delivery_point(order_data(order_id), reply)

RegisterLeg(system, order_id, reply) ==
    CASE system = "cms" -> CmsLeg(order_data(order_id), reply)
      [] system = "wms" -> WmsLeg(order_data(order_id), reply)
      [] OTHER -> RosLeg(order_data(order_id), reply)

\* one register call on a service object, recorded with what the external
\* system did and what the call gave back
adapter_call(system, order_id, reply) ==
    /\ Len(calls) < MaxCalls
    /\ calls' = Append(calls,
                       LET r == Register(system, order_id, reply)
                       IN  [system |-> system, order_id |-> order_id,
                            kind |-> reply.kind,
                            leg |-> RegisterLeg(system, order_id, reply),
                            raised |-> r.raised, result |-> r.value])
    /\ UNCHANGED app

AdapterCall ==
    \E system \in {"cms", "wms", "ros"}, order_id \in OrderIds :
        \E reply \in AdapterReplies(system, order_id) :
            adapter_call(system, order_id, reply)

SpecAdapters == Init /\ [][AdapterCall]_vars

(* ------------------- transport down, submit called again --------------- *)

\* what a transport-level failure of the external exchange is
TransportFailures == [kind : {"transport_error", "timeout"}, text : {None}]

ResubmitStart ==
    \E o \in NewOrderIds, k \in Invocations : process_order_start(o, k, TRUE)

DownCms ==
    \E o \in OrderIds, k \in Invocations, reply \in TransportFailures,
       publish \in PublishOutcomes : process_order_cms(o, k, reply, publish)

DownWms ==
    \E o \in OrderIds, k \in Invocations, reply \in TransportFailures,
       publish \in PublishOutcomes : process_order_wms(o, k, reply, publish)

DownRos ==
    \E o \in OrderIds, k \in Invocations, reply \in TransportFailures,
       publish \in PublishOutcomes : process_order_ros(o, k, reply, publish)

\* every external system is unreachable, and process_order may be called
\* again on an order id at any time; no client is connected
NextResubmit ==
    \/ HttpCreateOrder
    \/ ResubmitStart
    \/ DownCms
    \/ DownWms
    \/ DownRos
    \/ HttpUpdateStatus

SpecResubmit == Init /\ [][NextResubmit]_vars

(* ------------------------- MessageBroker consumers --------------------- *)

\* the message handlers of services.py
Callbacks == {"handle_order_processed", "handle_delivery_updated"}

\* json.dumps(message).encode(), line 273: the body basic_publish sends
json_dumps(message) ==
    <<"{", message.order_id>> \o message.status \o <<",">> \o message.error
        \o <<"}">>

\* what another publisher can leave on a queue: a JSON body, a body that is
\* not JSON, and one that is not UTF-8
ForeignBodies ==
    {json_dumps(Message("O2", <<"delivered">>, None)), <<"not", "json">>,
     <<"0xff">>}

\* line 291: json.loads(body.decode())
json_loads(body) ==
    IF body = <<"0xff">> THEN Raise(<<"UnicodeDecodeError">>)
    ELSE IF /\ Len(body) >= 4
            /\ body[1] = "{"
            /\ body[Len(body)] = "}"
            /\ \E i \in 3..(Len(body) - 1) : body[i] = ","
    THEN LET comma == CHOOSE i \in 3..(Len(body) - 1) :
                          /\ body[i] = ","
                          /\ \A j \in 3..(i - 1) : body[j] # ","
         IN  Ret(Message(body[2], SubSeq(body, 3, comma - 1),
                         SubSeq(body, comma + 1, Len(body) - 1)))
    ELSE Raise(<<"JSONDecodeError">>)

\* lines 346-355: asyncio.create_task is called in the consumer's thread,
\* where no event loop is running, and raises RuntimeError
handle_order_processed(message) ==
    Raise(<<"RuntimeError", "no running event loop">>)

\* lines 357-360: prints the message
handle_delivery_updated(message) == Ret(None)

\* line 292: callback(message)
callback_call(callback, message) ==
    IF callback = "handle_order_processed"
    THEN handle_order_processed(message)
    ELSE handle_delivery_updated(message)

basic_ack == [method |-> "basic_ack", requeue |-> FALSE]

basic_nack(requeue) == [method |-> "basic_nack", requeue |-> requeue]

\* the acknowledgement in a finally clause, after the handler of the
\* exception: what C27 excludes
wrapper_ack_finally(callback, body) ==
    LET message == json_loads(body)
    IN  IF message.raised \/ callback_call(callback, message.value).raised
        THEN <<basic_nack(FALSE), basic_ack>>
        ELSE <<basic_ack>>

\* lines 289-296: the channel methods wrapper calls for one delivery.  The
\* channel that delivers the message is open, and its basic_ack and
\* basic_nack return
wrapper(callback, body) ==
    LET message == json_loads(body)
    IN  IF message.raised THEN <<basic_nack(FALSE)>>
        ELSE IF callback_call(callback, message.value).raised
        THEN <<basic_nack(FALSE)>>
        ELSE <<basic_ack>>

\* lines 283-307: nothing without a channel, else basic_consume with wrapper
\* and a thread that runs start_consuming
MessageBroker_start_consumer(queue, callback) ==
    /\ on_message_callback[queue] = "-"
    /\ on_message_callback' =
           IF ~broker_channel THEN on_message_callback
           ELSE [on_message_callback EXCEPT ![queue] = callback]
    /\ UNCHANGED <<orders, delivery_updates, task, broker_channel, bus, ws,
                   active_connections, ws_sent, wms_updates, response, reports,
                   calls, deliveries>>

\* start_consuming hands a message of the queue to on_message_callback
basic_deliver(queue, body) ==
    /\ on_message_callback[queue] # "-"
    /\ Len(deliveries) < MaxDeliveries
    /\ deliveries' =
           Append(deliveries,
                  [delivery_tag |-> Len(deliveries) + 1, queue |-> queue,
                   callback |-> on_message_callback[queue], body |-> body,
                   settled |-> wrapper(on_message_callback[queue], body)])
    /\ UNCHANGED <<orders, delivery_updates, task, broker_channel, ws,
                   active_connections, ws_sent, wms_updates, response, reports,
                   calls, on_message_callback>>

StartConsumer ==
    \E queue \in Queues, callback \in Callbacks :
        MessageBroker_start_consumer(queue, callback)

\* the oldest message publish_message left on a queue is delivered
Deliver ==
    \E queue \in Queues :
        /\ bus[queue] # <<>>
        /\ basic_deliver(queue, json_dumps(Head(bus[queue])))
        /\ bus' = [bus EXCEPT ![queue] = Tail(@)]

\* a message of another publisher is delivered
DeliverForeign ==
    \E queue \in Queues, body \in ForeignBodies :
        /\ basic_deliver(queue, body)
        /\ UNCHANGED bus

\* an order is placed and processed, with every external system unreachable;
\* consumers are started and the broker delivers to them
NextConsumer ==
    \/ HttpCreateOrder
    \/ TaskStart
    \/ DownCms
    \/ DownWms
    \/ DownRos
    \/ StartConsumer
    \/ Deliver
    \/ DeliverForeign

SpecConsumer == Init /\ [][NextConsumer]_vars

(* ------------------------ several reports in a row --------------------- *)

LogUpdateStatus ==
    \E o \in OrderIds, u \in Drivers \cup {"c1"}, s \in ReportedStatuses,
       enforced \in BOOLEAN :
        /\ reports < MaxLog
        /\ update_delivery_status(o, u, s, enforced)

\* an order is placed and processed, with every external system unreachable,
\* while update-status requests follow one another; no client is connected
NextLog ==
    \/ HttpCreateOrder
    \/ TaskStart
    \/ DownCms
    \/ DownWms
    \/ DownRos
    \/ LogUpdateStatus

SpecLog == Init /\ [][NextLog]_vars

(* ------------------------ the submission, scheduled -------------------- *)

\* one order is placed and its background task runs
NextSubmission ==
    \/ HttpCreateOrder
    \/ TaskStart
    \/ TaskCms
    \/ TaskWms
    \/ TaskWmsBlocked
    \/ TaskRos

\* the event loop runs a coroutine whose await has completed: a step of
\* process_order that can be taken is taken
SpecSubmission ==
    /\ Init
    /\ [][NextSubmission]_vars
    /\ WF_vars(TaskStart)
    /\ WF_vars(TaskCms)
    /\ WF_vars(TaskWms)
    /\ WF_vars(TaskRos)

(* --------------------- several connections, two clients ---------------- *)

SessionConnect == \E w \in WsIds, c \in Clients : websocket_connect(w, c)

SessionPeerClose == \E w \in WsIds : websocket_peer_close(w)

SessionDisconnect == \E w \in WsIds : websocket_disconnect(w)

\* the clients open and close connections, two of them at a time, while the
\* order is submitted with every external system unreachable and reported on
NextSessions ==
    \/ HttpCreateOrder
    \/ TaskStart
    \/ DownCms
    \/ DownWms
    \/ DownRos
    \/ HttpUpdateStatus
    \/ SessionConnect
    \/ SessionPeerClose
    \/ SessionDisconnect

SpecSessions == Init /\ [][NextSessions]_vars

(* ======================= the specification's claims ==================== *)

\* text contains part
Contains(text, part) ==
    \E i \in 0..(Len(text) - Len(part)) : SubSeq(text, i + 1, i + Len(part)) = part

\* the invocation of process_order that create_order adds for order o
Submit(o) == task[o][1]

(* --------------------------------- C1 ---------------------------------- *)

\* C1: for every order in status submitted, whatever the three adapters return
\* or raise, when process_order completes the persisted status is either
\* processing with the CMS, WMS and ROS references all set, or failed with the
\* error message set; never submitted, never processing with a reference unset.
\* The code refutes it: a WMS reply that is a JSON object without package_id
\* is returned by add_package as it is, and the order is committed as
\* processing with wms_reference None.
C1_SubmitEndsProcessingWithReferencesOrFailed ==
    \A o \in DOMAIN orders : \A k \in Invocations :
        LET t == task[o][k]
        IN  (t.pc = "done" /\ t.loaded.status = "submitted") =>
                \/ /\ t.outcome.status = "processing"
                   /\ t.outcome.cms_reference # None
                   /\ t.outcome.wms_reference # None
                   /\ t.outcome.ros_reference # None
                \/ /\ t.outcome.status = "failed"
                   /\ t.outcome.error_message # None

(* --------------------------------- C2 ---------------------------------- *)

\* C2: in every reachable state every order's status is one of submitted,
\* processing, in_warehouse, out_for_delivery, delivered, failed.
\* The code refutes it: update_delivery_status assigns any text a driver sends,
\* and a database that does not enforce the column's enum stores it.
C2_StatusIsAnOrderStatus ==
    \A o \in DOMAIN orders : orders[o].status \in OrderStatus

(* --------------------------------- C3 ---------------------------------- *)

\* the references the register operation of each adapter can return for an order
CmsResultReferences(o) ==
    {cms_service_submit_order(order_data(o), reply).value.reference_id :
        reply \in CmsReplies(o)}

WmsResultReferences(o) ==
    {wms_service_add_package(order_data(o), reply).value.package_id :
        reply \in WmsReplies(o)}

RosResultReferences(o) ==
    {ros_service_add_delivery_point(order_data(o), reply).value.route_point_id :
        reply \in RosReplies(o)}

\* C3, as the specification states it: each of an order's three references is
\* unset or was obtained from a call of the corresponding adapter that
\* succeeded; a reference produced for a call that failed is never persisted.
\* Refuted: the reference an adapter synthesizes after a transport failure is
\* persisted like any other.
C3_ReferencesOnlyFromSucceededCalls ==
    \A o \in DOMAIN orders :
        /\ orders[o].cms_reference # None => Submit(o).legs.cms = "genuine"
        /\ orders[o].wms_reference # None => Submit(o).legs.wms = "genuine"
        /\ orders[o].ros_reference # None => Submit(o).legs.ros = "genuine"

\* C3, amended: each of an order's three references is unset or is the
\* reference carried by the result that the corresponding adapter's register
\* call returned to process_order for that order, whether the external system
\* supplied it or the adapter synthesized it after a failed exchange; a call
\* that raised leaves no reference.
C3_ReferencesAreAdapterResults ==
    \A o \in DOMAIN orders :
        LET t == Submit(o)
        IN  /\ orders[o].cms_reference \in {None} \cup CmsResultReferences(o)
            /\ orders[o].wms_reference \in {None} \cup WmsResultReferences(o)
            /\ orders[o].ros_reference \in {None} \cup RosResultReferences(o)
            /\ orders[o].cms_reference # None =>
                   /\ t.legs.cms \in {"genuine", "degraded"}
                   /\ orders[o].cms_reference = t.cms_response.reference_id
            /\ orders[o].wms_reference # None =>
                   /\ t.legs.wms \in {"genuine", "degraded"}
                   /\ orders[o].wms_reference = t.wms_response.package_id
            /\ orders[o].ros_reference # None =>
                   /\ t.legs.ros \in {"genuine", "degraded"}
                   /\ orders[o].ros_reference = t.ros_response.route_point_id

\* a reference synthesized after a failed exchange is on the order
C3_SynthesizedReferencePersisted ==
    \E o \in DOMAIN orders :
        /\ Submit(o).legs.cms = "degraded"
        /\ orders[o].cms_reference = <<"CMS_MOCK_", o>>

(* --------------------------------- C4 ---------------------------------- *)

\* C4, as the specification states it: when the CMS adapter hard-fails during
\* submit and the WMS and ROS adapters succeed, the order ends failed, its
\* error message contains the adapter's error text, the WMS and ROS references
\* are set and the CMS reference is unset.
\* Refuted: the except clause is reached before the WMS and ROS calls are made.
C4_CmsHardFailureKeepsWmsAndRosReferences ==
    \A o \in DOMAIN orders :
        LET t == Submit(o)
        IN  (t.pc = "done" /\ t.legs.cms = "hard") =>
                /\ t.outcome.status = "failed"
                /\ Contains(t.outcome.error_message, t.raised)
                /\ t.outcome.wms_reference # None
                /\ t.outcome.ros_reference # None
                /\ t.outcome.cms_reference = None

\* C4, amended: when the CMS adapter hard-fails during submit, the order ends
\* failed and its error message contains the adapter's error text; the WMS and
\* ROS adapters are not called, and all three references are left unset.
C4_CmsHardFailureShortCircuits ==
    \A o \in DOMAIN orders :
        LET t == Submit(o)
        IN  (t.legs.cms = "hard") =>
                /\ t.pc = "done"
                /\ t.outcome.status = "failed"
                /\ t.raised \in HardErrors
                /\ Contains(t.outcome.error_message, t.raised)
                /\ t.legs.wms = "-" /\ t.legs.ros = "-"
                /\ \A i \in 1..Len(t.effects) :
                       t.effects[i].op = "call" => t.effects[i].what = <<"cms">>
                /\ t.outcome.cms_reference = None
                /\ t.outcome.wms_reference = None
                /\ t.outcome.ros_reference = None
                /\ orders[o].cms_reference = None
                /\ orders[o].wms_reference = None
                /\ orders[o].ros_reference = None

\* the CMS call of a submit raised ConnectionRefused and the submit has returned
C4_CmsHardFailed ==
    \E o \in DOMAIN orders :
        /\ Submit(o).pc = "done"
        /\ Submit(o).legs.cms = "hard"
        /\ Submit(o).raised = <<"ConnectionRefused">>

(* --------------------------------- C5 ---------------------------------- *)

\* the exchanges that end in a transport error, a timeout or a non-success
\* response: for the WMS, whose protocol has no status line, the reply that
\* reports an error
FailedExchanges == {"transport_error", "timeout", "http_error", "json_error_object"}

SynthesizedReference(system, order_id) ==
    CASE system = "cms" -> <<"CMS_MOCK_", order_id>>
      [] system = "wms" -> <<"WMS_MOCK_", order_id>>
      [] OTHER -> <<"ROS_MOCK_", order_id>>

ResultReference(call) ==
    CASE call.system = "cms" -> call.result.reference_id
      [] call.system = "wms" -> call.result.package_id
      [] OTHER -> call.result.route_point_id

\* C5: the register operation of each adapter never raises to its caller on a
\* transport error, a timeout or a non-success response, and returns in each
\* of those cases a result carrying the synthesized reference of that system.
\* The code refutes it for the WMS: add_package returns the decoded reply as it
\* is, so a reply reporting an error comes back without a reference.
C5_RegisterSynthesizesOnEveryFailure ==
    \A i \in 1..Len(calls) :
        calls[i].kind \in FailedExchanges =>
            /\ ~calls[i].raised
            /\ ResultReference(calls[i])
                   = SynthesizedReference(calls[i].system, calls[i].order_id)

(* --------------------------------- C6 ---------------------------------- *)

\* C6: every degraded result of an adapter carries a flag that distinguishes
\* it from the result of a genuinely successful call of the same adapter.
\* The code refutes it: the mock response has the keys of a genuine one and no
\* other, so a genuine result can equal a degraded one.
C6_DegradedResultsAreDistinguishable ==
    \A i, j \in 1..Len(calls) :
        (/\ calls[i].system = calls[j].system
         /\ calls[i].leg = "degraded"
         /\ calls[j].leg = "genuine") => calls[i].result # calls[j].result

(* --------------------------------- C7 ---------------------------------- *)

\* C7: when all three adapters fail at the transport level, submit yields
\* status processing with each reference a function of the order id alone
\* (CMS_MOCK_, WMS_MOCK_, ROS_MOCK_ followed by the order id), and an
\* invocation of submit on the same order while it is still submitted yields
\* the same three references and the same status.
C7_TransportDownSubmitIsDeterministic ==
    \A o \in DOMAIN orders :
        /\ \A k \in Invocations :
               LET t == task[o][k]
               IN  (t.pc = "done" /\ t.loaded.status = "submitted") =>
                       /\ t.legs = [cms |-> "degraded", wms |-> "degraded",
                                    ros |-> "degraded"]
                       /\ t.outcome.status = "processing"
                       /\ t.outcome.cms_reference = <<"CMS_MOCK_", o>>
                       /\ t.outcome.wms_reference = <<"WMS_MOCK_", o>>
                       /\ t.outcome.ros_reference = <<"ROS_MOCK_", o>>
                       /\ t.outcome.error_message = None
        /\ \A k1, k2 \in Invocations :
               LET t1 == task[o][k1]
                   t2 == task[o][k2]
               IN  (/\ t1.pc = "done" /\ t1.loaded.status = "submitted"
                    /\ t2.pc = "done" /\ t2.loaded.status = "submitted") =>
                       /\ t1.outcome.status = t2.outcome.status
                       /\ t1.outcome.cms_reference = t2.outcome.cms_reference
                       /\ t1.outcome.wms_reference = t2.outcome.wms_reference
                       /\ t1.outcome.ros_reference = t2.outcome.ros_reference

\* two invocations of submit found the order submitted and both have returned
C7_SubmittedTwiceWhileSubmitted ==
    \E o \in DOMAIN orders : \E k1, k2 \in Invocations :
        /\ k1 # k2
        /\ task[o][k1].pc = "done" /\ task[o][k1].loaded.status = "submitted"
        /\ task[o][k2].pc = "done" /\ task[o][k2].loaded.status = "submitted"

(* --------------------------------- C8 ---------------------------------- *)

\* the messages on a queue that name order o
MessagesOf(routing_key, o) ==
    {i \in 1..Len(bus[routing_key]) : bus[routing_key][i].order_id = o}

\* the calls of publish_message an invocation made
Publishes(t) == {i \in 1..Len(t.effects) : t.effects[i].op = "publish"}

\* C8: when an adapter call of a submit ends in a hard error, the order's
\* status is set to failed and the error text is persisted as its error
\* message; after that commit publish_message is called exactly once, with
\* order.failed carrying the order id and that text, and never with
\* order.processed.  On the broker this is one order.failed message when
\* basic_publish accepts it and none otherwise.
C8_HardErrorFailsAndPublishesOrderFailed ==
    \A o \in DOMAIN orders :
        LET t == Submit(o)
            n == Len(t.effects)
        IN  ("hard" \in {t.legs.cms, t.legs.wms, t.legs.ros}) =>
                /\ t.pc = "done"
                /\ t.raised \in HardErrors
                /\ t.outcome.status = "failed"
                /\ t.outcome.error_message = t.raised
                /\ orders[o].error_message = t.raised
                /\ n >= 3
                /\ t.effects[n - 2] = Effect("except", t.raised)
                /\ t.effects[n - 1] = Effect("commit", <<"failed">>)
                /\ t.effects[n] = Effect("publish", <<"order.failed", o>> \o t.raised)
                /\ Publishes(t) = {n}
                /\ MessagesOf("order.processed", o) = {}
                /\ \A i \in MessagesOf("order.failed", o) :
                       bus["order.failed"][i] = Message(o, None, t.raised)
                /\ Cardinality(MessagesOf("order.failed", o))
                       = IF t.published = "ok" THEN 1 ELSE 0

\* the WMS call of a submit raised, and the broker took the order.failed message
C8_HardErrorPublished ==
    \E o \in DOMAIN orders :
        /\ Submit(o).legs.wms = "hard"
        /\ Submit(o).pc = "done"
        /\ Submit(o).published = "ok"
        /\ Len(bus["order.failed"]) = 1

(* --------------------------------- C9 ---------------------------------- *)

\* C9: when all three adapter calls of a submit return, degraded results
\* included, the order's status is set to processing and the three references
\* are persisted; after that commit publish_message is called exactly once,
\* with order.processed carrying the order id and status processing, and
\* never with order.failed.
\* The code refutes it: a WMS reply that is valid JSON but no object is
\* returned by add_package, and wms_response.get raises in process_order
\* after all three calls returned; the order ends failed, with order.failed.
C9_AllReturnedGivesProcessing ==
    \A o \in DOMAIN orders :
        LET t == Submit(o)
            n == Len(t.effects)
        IN  (/\ t.pc = "done"
             /\ t.legs.cms \in {"genuine", "degraded"}
             /\ t.legs.wms \in {"genuine", "degraded"}
             /\ t.legs.ros \in {"genuine", "degraded"}) =>
                /\ t.outcome.status = "processing"
                /\ t.outcome.cms_reference = t.cms_response.reference_id
                /\ t.outcome.wms_reference = t.wms_response.package_id
                /\ t.outcome.ros_reference = t.ros_response.route_point_id
                /\ n >= 2
                /\ t.effects[n - 1] = Effect("commit", <<"processing">>)
                /\ t.effects[n] = Effect("publish", <<"order.processed", o, "processing">>)
                /\ Publishes(t) = {n}
                /\ MessagesOf("order.failed", o) = {}

(* --------------------------------- C10 --------------------------------- *)

\* an update-status request naming an order id that does not exist is answered
ReportOnMissingOrder ==
    /\ reports' # reports
    /\ response'.order_id \notin DOMAIN orders

\* C10, as the specification states it: a report on an order id that does not
\* exist returns NotFound and changes nothing.
\* Refuted: a caller who is not a driver is answered Forbidden, the user type
\* being tested before the order is looked up.
C10_ReportOnMissingOrderIsNotFound ==
    [][ReportOnMissingOrder =>
           /\ response'.code = 404
           /\ UNCHANGED <<orders, delivery_updates, wms_updates, ws_sent>>]_vars

\* C10, amended: a report by a driver on an order id that does not exist
\* returns NotFound; a caller who is not a driver is answered Forbidden before
\* the order is looked up.  Either way nothing changes: no order is modified,
\* no DeliveryUpdate is appended, the WMS adapter is not called, no message is
\* pushed or published.
C10_ReportOnMissingOrderChangesNothing ==
    [][ReportOnMissingOrder =>
           /\ response'.code = IF user_type(response'.user) = "driver"
                               THEN 404 ELSE 403
           /\ UNCHANGED <<orders, delivery_updates, wms_updates, ws_sent, bus,
                          task, ws, active_connections>>]_vars

\* a driver's report on an id no order has was answered NotFound, while
\* another order exists
C10_MissingOrderReported ==
    /\ response.code = 404
    /\ user_type(response.user) = "driver"
    /\ response.order_id \notin DOMAIN orders
    /\ DOMAIN orders # {}

(* --------------------------------- C11 --------------------------------- *)

\* an update-status request on an existing order is answered, made by a driver
\* who is not the driver assigned to the order
ReportByUnassignedDriver ==
    /\ reports' # reports
    /\ response'.order_id \in DOMAIN orders
    /\ user_type(response'.user) = "driver"
    /\ orders[response'.order_id].assigned_driver_id # response'.user

\* C11: a report by a driver who is not the driver assigned to the order is
\* rejected and changes nothing: the order's status is unchanged and no
\* DeliveryUpdate is appended.
\* The code refutes it: update_delivery_status tests the user type only and
\* never reads assigned_driver_id, so any driver's report is accepted.
C11_UnassignedDriverIsRejected ==
    [][ReportByUnassignedDriver =>
           /\ response'.code # 200
           /\ UNCHANGED <<orders, delivery_updates>>]_vars

(* --------------------------------- C12 --------------------------------- *)

\* an update-status request is answered with success
ReportAccepted ==
    /\ reports' # reports
    /\ response'.code = 200

\* C12: an accepted report with status s on an existing order appends exactly
\* one DeliveryUpdate for that order, sets the order's status to s and changes
\* nothing else of any order, pushes one delivery_update message with s to the
\* connection registered under the client_id of the order's owner (nothing
\* when none is registered) and to no other, and publishes no event.
C12_AcceptedReportEffects ==
    [][ReportAccepted =>
           LET o == response'.order_id
               n == Len(delivery_updates)
               s == delivery_updates'[n + 1].status
               owner == orders[o].client_id
           IN  /\ o \in DOMAIN orders
               /\ Len(delivery_updates') = n + 1
               /\ SubSeq(delivery_updates', 1, n) = delivery_updates
               /\ delivery_updates'[n + 1].order_id = o
               /\ delivery_updates'[n + 1].driver_id = response'.user
               /\ orders' = [orders EXCEPT ![o].status = s]
               /\ wms_updates' = Append(wms_updates, [order_id |-> o, status |-> s])
               /\ IF owner \in DOMAIN active_connections
                  THEN ws_sent' = Append(ws_sent,
                                         [ws |-> active_connections[owner],
                                          client_id |-> owner,
                                          type |-> "delivery_update",
                                          order_id |-> o, status |-> s])
                  ELSE ws_sent' = ws_sent
               /\ UNCHANGED <<bus, task, ws, active_connections>>]_vars

\* a report was accepted and pushed to the owner while another client was
\* connected too
C12_PushedToOwnerOnly ==
    /\ response.code = 200
    /\ Len(delivery_updates) = 1
    /\ Len(ws_sent) = 1
    /\ DOMAIN active_connections = Clients
    /\ \E o \in DOMAIN orders : orders[o].status = "out_for_delivery"

(* --------------------------------- C13 --------------------------------- *)

\* C13: once an order's status is failed or delivered, no later submit or
\* report changes that order's status.
\* The code refutes it: update_delivery_status assigns the reported status
\* whatever the order's status is, and process_order commits processing or
\* failed over a status a report wrote meanwhile.
C13_TerminalStatusIsKept ==
    [][\A o \in DOMAIN orders :
           orders[o].status \in {"failed", "delivered"} =>
               orders'[o].status = orders[o].status]_vars

(* --------------------------------- C14 --------------------------------- *)

\* the except clause ran in an invocation
Excepts(t) == {i \in 1..Len(t.effects) : t.effects[i].op = "except"}

\* C14: a failure to publish (no channel, or basic_publish raising) is not
\* propagated to process_order and does not change the persisted status:
\* publish_message is called once and returns, process_order returns, an order
\* committed as processing stays processing with no error message, and an
\* order ends failed only for an error of the adapter calls or of reading
\* their results.
C14_PublishFailureIsSwallowed ==
    \A o \in DOMAIN orders :
        LET t == Submit(o)
        IN  (t.pc = "done" /\ t.published \in {"no_channel", "raises"}) =>
                /\ Cardinality(Publishes(t)) = 1
                /\ MessagesOf("order.processed", o) = {}
                /\ MessagesOf("order.failed", o) = {}
                /\ orders[o].error_message = t.outcome.error_message
                /\ (\E i \in 1..Len(t.effects) :
                        t.effects[i] = Effect("commit", <<"processing">>)) =>
                       /\ t.outcome.status = "processing"
                       /\ t.outcome.error_message = None
                       /\ Excepts(t) = {}
                /\ t.outcome.status = "failed" =>
                       \/ t.raised \in HardErrors /\ t.outcome.error_message = t.raised
                       \/ ~t.wms_response.is_dict
                /\ t.outcome.status \in {"processing", "failed"}

\* basic_publish raised on order.processed and the order is processing
C14_PublishRaisedOnProcessed ==
    \E o \in DOMAIN orders :
        /\ Submit(o).pc = "done"
        /\ Submit(o).published = "raises"
        /\ Submit(o).outcome.status = "processing"
        /\ orders[o].status = "processing"

(* --------------------------------- C15 --------------------------------- *)

\* C15: every started submission eventually completes, also when an external
\* system never responds, each adapter call giving up after its own timeout.
\* The code refutes it: the CMS and ROS calls have timeout=30, but
\* _send_tcp_message awaits the WMS with no timeout, so a WMS that never
\* answers leaves process_order waiting and the order submitted for ever.
C15_SubmissionCompletes ==
    \A o \in NewOrderIds : (Submit(o).pc = "cms") ~> (Submit(o).pc = "done")

(* --------------------------------- C16 --------------------------------- *)

\* C16: process_order invoked on an order whose status is not submitted calls
\* no adapter, leaves the order's status and references unchanged and
\* publishes no event.
\* The code refutes it: process_order tests only that the order exists.  A
\* report that arrives before the background task starts changes the status,
\* and the task then runs the three calls and commits all the same.
C16_SubmitOnlyWhenSubmitted ==
    \A o \in DOMAIN orders :
        LET t == Submit(o)
        IN  (t.pc \notin {"idle", "scheduled"} /\ t.loaded.status # "submitted") =>
                /\ t.pc = "done"
                /\ t.effects = <<>>
                /\ t.outcome = NoRow
                /\ MessagesOf("order.processed", o) = {}
                /\ MessagesOf("order.failed", o) = {}

(* --------------------------------- C17 --------------------------------- *)

References(row) == <<row.cms_reference, row.wms_reference, row.ros_reference>>

\* all three adapter calls of an invocation have returned
AllReturned(t) ==
    /\ t.legs.cms \in {"genuine", "degraded"}
    /\ t.legs.wms \in {"genuine", "degraded"}
    /\ t.legs.ros \in {"genuine", "degraded"}

\* C17: no partial result of a submission is observable in the persisted
\* order.  A step of process_order that does not end it writes nothing; the
\* step that ends it is the only one that writes, after all three calls have
\* returned or a call has raised; the write that sets processing sets the
\* three references the calls returned in the same commit; and no other
\* operation changes an order's references.
C17_SubmissionWritesOnce ==
    [][\A o \in DOMAIN orders :
           LET t == task[o][1]
               u == task'[o][1]
           IN  /\ (u # t /\ u.pc # "done") => orders' = orders
               /\ (u # t /\ u.pc = "done") =>
                      /\ orders' = [orders EXCEPT ![o] = u.outcome]
                      /\ AllReturned(u) \/ "hard" \in {u.legs.cms, u.legs.wms, u.legs.ros}
                      /\ u.outcome.status \in {"processing", "failed"}
                      /\ u.outcome.status = "processing" =>
                             /\ AllReturned(u)
                             /\ References(u.outcome) =
                                    <<u.cms_response.reference_id,
                                      u.wms_response.package_id,
                                      u.ros_response.route_point_id>>
               /\ (u = t) => References(orders'[o]) = References(orders[o])]_vars

\* a submission has written processing with the references of its three calls
C17_ProcessingWithReferences ==
    \E o \in DOMAIN orders :
        /\ Submit(o).pc = "done"
        /\ orders[o].status = "processing"
        /\ References(orders[o]) = <<<<"CMS-7001">>, <<"PKG-42">>, <<"RP-9">>>>

(* --------------------------------- C18 --------------------------------- *)

\* C18: under any interleaving of connects and disconnects of several
\* connections of one client_id, the registry maps the client_id to its most
\* recently connected connection as long as that connection is open; the
\* disconnect of an older, superseded connection does not remove the entry.
\* The code refutes it: disconnect deletes whatever is stored under the
\* client_id, so the end of an older connection removes the newer one's entry.
C18_RegistryHoldsLatestOpenConnection ==
    \A w \in WsIds :
        (ws[w].state = "open" /\ ~ws[w].superseded) =>
            /\ ws[w].client_id \in DOMAIN active_connections
            /\ active_connections[ws[w].client_id] = w

(* --------------------------------- C19 --------------------------------- *)

\* C19: when process_order and a report run concurrently on one order, no
\* update is lost: a status that a report wrote while process_order was
\* awaiting its adapters is not overwritten by process_order's write of
\* processing or failed.
\* The code refutes it: process_order sets the status on the object it loaded
\* before the calls and commits it, whatever the row holds by then.
C19_ReportIsNotOverwritten ==
    [][\A o \in DOMAIN orders :
           LET t == task[o][1]
               u == task'[o][1]
           IN  (/\ t.pc \in {"cms", "wms", "ros"}
                /\ u.pc = "done"
                /\ orders[o].status # t.loaded.status) =>
                   orders'[o].status = orders[o].status]_vars

(* --------------------------------- C20 --------------------------------- *)

\* a report is committed while no connection is registered under the
\* client_id of the order's owner
ReportWithOwnerUnregistered ==
    /\ reports' # reports
    /\ delivery_updates' # delivery_updates
    /\ orders[response'.order_id].client_id \notin DOMAIN active_connections

\* C20: pushing a message to a client_id that has no registered connection is
\* a silent no-op: send_message returns normally (update_delivery_status goes
\* on to the WMS update and answers 200), nothing is sent and the registry is
\* unchanged.
C20_PushToUnregisteredIsNoOp ==
    [][ReportWithOwnerUnregistered =>
           /\ response'.code = 200
           /\ ws_sent' = ws_sent
           /\ active_connections' = active_connections
           /\ ws' = ws
           /\ Len(wms_updates') = Len(wms_updates) + 1]_vars

\* a report was accepted while only the other client was connected, and
\* nothing was sent
C20_ReportedWhileOwnerOffline ==
    /\ response.code = 200
    /\ Len(delivery_updates) >= 1
    /\ ws_sent = <<>>
    /\ DOMAIN active_connections = {"c2"}

(* --------------------------------- C21 --------------------------------- *)

\* a report commits its DeliveryUpdate
ReportPersisted ==
    /\ reports' # reports
    /\ delivery_updates' # delivery_updates

\* C21: a failure of the live push during a report is not surfaced to the
\* reporting caller: once the status and the DeliveryUpdate are persisted the
\* report answers success.
\* The code refutes it: send_message awaits send_text with no try around it,
\* in the manager or in the endpoint, so an exception of the owner's socket
\* leaves update_delivery_status and the caller is answered 500.
C21_PushFailureIsNotSurfaced ==
    [][ReportPersisted => response'.code = 200]_vars

(* --------------------------------- C23 --------------------------------- *)

\* C23: every report that persists a new status also invokes the warehouse
\* adapter's update-status operation with that order id and that status,
\* whether or not the live push succeeds.
\* The code refutes it: the WMS update is the statement after the push, and is
\* not reached when the push raises.
C23_PersistedReportUpdatesWarehouse ==
    [][ReportPersisted =>
           LET d == delivery_updates'[Len(delivery_updates')]
           IN  wms_updates' = Append(wms_updates,
                                     [order_id |-> d.order_id,
                                      status |-> d.status])]_vars

(* --------------------------------- C22 --------------------------------- *)

\* the register calls an invocation has started, in the order it started them
CallsStarted(t) == SelectSeq(t.effects, LAMBDA e : e.op = "call")

\* lines 275, 283 and 289: the order of the three awaits of process_order
CallOrder ==
    <<Effect("call", <<"cms">>), Effect("call", <<"wms">>), Effect("call", <<"ros">>)>>

\* C22: within one submission the adapters are invoked in the order
\* client-management, warehouse, route-optimization: the warehouse call never
\* starts before the client-management call has returned, and the route call
\* never starts before the warehouse call has returned.
C22_AdaptersInFixedOrder ==
    \A o \in OrderIds, k \in Invocations :
        LET t == task[o][k]
            c == CallsStarted(t)
        IN  /\ c = SubSeq(CallOrder, 1, Len(c))
            /\ Len(c) >= 2 => t.legs.cms # "-"
            /\ Len(c) >= 3 => t.legs.wms # "-"

\* a submission awaits the route call, the other two having returned
C22_RouteCallAfterTheOthers ==
    /\ Submit("O1").pc = "ros"
    /\ Len(CallsStarted(Submit("O1"))) = 3
    /\ Submit("O1").legs.cms # "-"
    /\ Submit("O1").legs.wms # "-"
    /\ Submit("O1").legs.ros = "-"

(* --------------------------------- C24 --------------------------------- *)

\* C24: the DeliveryUpdate log is append-only: across any sequence of submit
\* and report operations the persisted records only grow in number, and no
\* existing record is modified or removed.
C24_LogIsAppendOnly ==
    [][/\ Len(delivery_updates') >= Len(delivery_updates)
       /\ SubSeq(delivery_updates', 1, Len(delivery_updates)) = delivery_updates]_vars

\* two reports on one order are in the log, and its submission has ended
C24_TwoRecordsOfOneOrder ==
    /\ Len(delivery_updates) = 2
    /\ delivery_updates[1].order_id = delivery_updates[2].order_id
    /\ Submit(delivery_updates[1].order_id).pc = "done"

(* --------------------------------- C25 --------------------------------- *)

\* C25: a report persists the order's new status and the new DeliveryUpdate in
\* one atomic write: either both are persisted, the order holding the status
\* of the record just appended, or neither is, and nothing but a report adds a
\* DeliveryUpdate.
C25_StatusAndRecordTogether ==
    [][IF reports' # reports
       THEN \/ /\ delivery_updates' = delivery_updates
               /\ orders' = orders
            \/ /\ Len(delivery_updates') = Len(delivery_updates) + 1
               /\ LET d == delivery_updates'[Len(delivery_updates')]
                  IN  /\ d.order_id = response'.order_id
                      /\ d.order_id \in DOMAIN orders'
                      /\ orders'[d.order_id].status = d.status
       ELSE delivery_updates' = delivery_updates]_vars

\* a first report was persisted, status and record, and the commit of a
\* second one was refused and left both as they were
C25_RefusedAfterPersisted ==
    /\ reports = 2
    /\ response.code = 500
    /\ Len(delivery_updates) = 1
    /\ delivery_updates[1].order_id \in DOMAIN orders
    /\ orders[delivery_updates[1].order_id].status = delivery_updates[1].status

(* --------------------------------- C26 --------------------------------- *)

\* what a report must leave alone in an order
Frame(row) ==
    [client_id |-> row.client_id, assigned_driver_id |-> row.assigned_driver_id,
     cms_reference |-> row.cms_reference, wms_reference |-> row.wms_reference,
     ros_reference |-> row.ros_reference, error_message |-> row.error_message]

\* C26: a report changes only the order's status (and update timestamp): the
\* three external references and the error message of every order are the same
\* after a report as before it.
C26_ReportKeepsReferencesAndError ==
    [][reports' # reports =>
           /\ DOMAIN orders' = DOMAIN orders
           /\ \A o \in DOMAIN orders : Frame(orders'[o]) = Frame(orders[o])]_vars

\* a report was accepted on an order that holds its three references
C26_ReportedWithReferences ==
    /\ "O1" \in DOMAIN orders
    /\ Len(delivery_updates) >= 1
    /\ orders["O1"].status = delivery_updates[Len(delivery_updates)].status
    /\ orders["O1"].cms_reference # None
    /\ orders["O1"].wms_reference # None
    /\ orders["O1"].ros_reference # None

(* --------------------------------- C27 --------------------------------- *)

\* the decoding and the callback of a delivery completed without raising
Handled(d) ==
    /\ ~json_loads(d.body).raised
    /\ ~callback_call(d.callback, json_loads(d.body).value).raised

\* C27: each message delivered to a consumer started with start_consumer is
\* settled exactly once: acknowledged if and only if the JSON decoding and the
\* callback completed without raising, and otherwise negatively acknowledged
\* without requeue, so that it is not redelivered.
C27_SettledExactlyOnce ==
    \A i \in 1..Len(deliveries) :
        LET d == deliveries[i]
        IN  /\ Len(d.settled) = 1
            /\ d.settled[1].method = "basic_ack" <=> Handled(d)
            /\ ~Handled(d) => d.settled[1] = basic_nack(FALSE)

\* one message whose handler returned was acknowledged, and one published by
\* process_order, whose handler raised, was rejected
C27_AckedAndRejected ==
    \E i, j \in 1..Len(deliveries) :
        /\ deliveries[i].settled = <<basic_ack>>
        /\ deliveries[j].callback = "handle_order_processed"
        /\ deliveries[j].body = json_dumps(Message("O1", <<"processing">>, None))
        /\ deliveries[j].settled = <<basic_nack(FALSE)>>

====
